---------------------------- MODULE Spec2Model ----------------------------
(***************************************************************************)
(* graphql-sync-dataloaders: SyncFuture (sync_future.py), the batch scope  *)
(* DataloaderBatchCallbacks and SyncDataLoader (sync_dataloader.py) and    *)
(* DeferredExecutionContext (execution_context.py).                        *)
(*                                                                         *)
(* Everything runs on one synchronous call stack, so every operation is a  *)
(* function from machine state to machine state.  The machine state is the *)
(* record Mach; a raised Python exception is the field exc of the state an *)
(* operation returns, a returned value the field ret.  Closures are data   *)
(* (callback records) interpreted by Invoke.                               *)
(***************************************************************************)
EXTENDS Integers, Sequences, FiniteSets, TLC

VARIABLES
    futs,       \* heap of SyncFuture objects, index = identity
    cache,      \* SyncDataLoader._cache : key -> future id (0 = absent)
    queue,      \* SyncDataLoader._queue : sequence of [key, fut]
    scopes,     \* DataloaderBatchCallbacks objects: [callbacks, token]
    current,    \* contextvar _dataloader_batch_callbacks (0 = None)
    batch_load_fn, \* SyncDataLoader._batch_load_fn
    ctx,        \* the DeferredExecutionContext of the evaluation
    calls,      \* invocations of the batch-fetch function: sequence of key lists
    log,        \* observer callbacks that ran, in order: <<future, tag>>
    last,       \* the client's last API call and its outcome
    hist,       \* the client's notes on the futures it created and settled
    pc          \* position of the client program

vars == <<futs, cache, queue, scopes, current, batch_load_fn, ctx, calls, log,
          last, hist, pc>>

-----------------------------------------------------------------------------
(* Bounds *)

MaxFuts == 3        \* SyncFuture objects per run
MaxCbs == 2         \* callbacks the client registers per run
MaxKey == 2         \* keys are 1..MaxKey
MaxPlain == 2       \* plain values handed to set_result are 1..MaxPlain
MaxScopes == 2      \* DataloaderBatchCallbacks objects per run
MaxFields == 2      \* fields of the selection an evaluation executes
MaxRaw == 2         \* futures the client of an evaluation builds itself
MaxAdds == 2        \* callbacks the client of a scope registers itself

Keys == 1..MaxKey
Plain == 1..MaxPlain

-----------------------------------------------------------------------------
(* Values: None, plain values, references to futures, exception objects.   *)
(* p is the path of an exception that located_error has located.           *)

None == [t |-> "None", v |-> 0, p |-> <<>>]
Val(n) == [t |-> "val", v |-> n, p |-> <<>>]
Fut(f) == [t |-> "fut", v |-> f, p |-> <<>>]
Exc(class, n) == [t |-> class, v |-> n, p |-> <<>>]

InvalidStateError == Exc("InvalidStateError", 0)
SelfResolveError == Exc("TypeError", 0)
OperandTypeError == Exc("TypeError", 1)
ConfigError == Exc("RuntimeError", 0)
IncompleteError == Exc("RuntimeError", 1)
BatchResultError == Exc("ValueError", 0)
UserError(n) == Exc("UserError", n)
UnboundFutureError == Exc("NameError", 0)
NullValueError == Exc("TypeError", 2)
NotIterableError == Exc("GraphQLError", 0)

\* Undefined, the placeholder of a pending field, a result dict, a result list
\* (both by identity), the list a resolver returned
Undefined == [t |-> "Undefined", v |-> 0, p |-> <<>>]
PENDING_FUTURE == [t |-> "PENDING_FUTURE", v |-> 0, p |-> <<>>]
DictVal(o) == [t |-> "dict", v |-> o, p |-> <<>>]
ListVal(l) == [t |-> "list", v |-> l, p |-> <<>>]
Items(xs) == [t |-> "items", v |-> xs, p |-> <<>>]

IsFut(x) == x.t = "fut"
IsExc(x) == x.t \in {"InvalidStateError", "TypeError", "RuntimeError",
                     "ValueError", "UserError", "NameError", "GraphQLError"}

\* no callable
NoCb == [k |-> "none", a |-> 0, t |-> [k |-> "none", a |-> 0]]

\* states of a future
PENDING == "PENDING"
FINISHED == "FINISHED"

\* a new SyncFuture
NewFut == [state |-> PENDING, result |-> None, exception |-> None,
           callbacks |-> <<>>, deferred_callback |-> NoCb]

-----------------------------------------------------------------------------
(* Closures *)

\* on_complete functions handed to then
NoT == [k |-> "none", a |-> 0]
TDouble == [k |-> "double", a |-> 0]           \* lambda x: x * 2
TSucc == [k |-> "succ", a |-> 0]               \* lambda x: x + 1
TSuccDouble == [k |-> "succ_double", a |-> 0]  \* lambda x: (x * 2) + 1
TFut(f) == [k |-> "fut", a |-> f]              \* lambda _: f
TRaise(n) == [k |-> "raise", a |-> n]          \* raises UserError(n)
TLoadRef == [k |-> "load_ref", a |-> 0]        \* lambda u: loader.load(u.ref)

\* callbacks: bound methods and closures registered with add_done_callback or
\* add_callback
CbSetResult(f) == [k |-> "set_result", a |-> f, t |-> NoT]
CbCallAndResolve(ret, t) == [k |-> "call_and_resolve", a |-> ret, t |-> t]
CbRecord(f, tag) == [k |-> "record", a |-> f, t |-> [k |-> "tag", a |-> tag]]
CbDispatch == [k |-> "dispatch_queue", a |-> 0, t |-> NoT]
\* lambda: scope.add_callback(cb): a callback that notes its run and appends a
\* recording callback to the scope it was registered on
CbAdder(s, tag) == [k |-> "add_callback", a |-> s, t |-> [k |-> "tag", a |-> tag]]

\* the closures of the evaluator
CbFieldResult(future, result, ty, path) ==
    [k |-> "field_process_result", a |-> future,
     t |-> [src |-> result, ty |-> ty, path |-> path]]
CbFieldCompleted(future, completed, ty, path) ==
    [k |-> "field_process_completed", a |-> future,
     t |-> [src |-> completed, ty |-> ty, path |-> path]]
CbFieldsResult(o, name, result) ==
    [k |-> "fields_process_result", a |-> o,
     t |-> [name |-> name, src |-> result]]
CbItemCompleted(l, index, completed, ty, path, counted) ==
    [k |-> "item_process_completed", a |-> l,
     t |-> [index |-> index, src |-> completed, ty |-> ty, path |-> path,
            counted |-> counted]]
CbProcessItem(l, index, item, ty, path) ==
    [k |-> "process_item", a |-> l,
     t |-> [index |-> index, src |-> item, ty |-> ty, path |-> path]]

-----------------------------------------------------------------------------
(* The machine state the operations work on *)

Mach == [futs |-> futs, cache |-> cache, queue |-> queue, scopes |-> scopes,
         current |-> current, fn |-> batch_load_fn, ctx |-> ctx,
         calls |-> calls, log |-> log,
         exc |-> None, ret |-> None]

\* one statement after another: x is evaluated, then Rest of its outcome
Bind(x, Rest(_)) == CHOOSE y \in {Rest(r) : r \in {x}} : TRUE

Raise(m, e) == [m EXCEPT !.exc = e, !.ret = None]
Return(m, x) == [m EXCEPT !.ret = x]
Raised(m) == m.exc # None
Caught(m) == [m EXCEPT !.exc = None]


-----------------------------------------------------------------------------
(* SyncFuture, SyncDataLoader and DataloaderBatchCallbacks *)

RECURSIVE SetResult(_, _, _)
RECURSIVE SetException(_, _, _)
RECURSIVE Finish(_, _)
RECURSIVE RunCallbacks(_, _, _, _)
RECURSIVE Invoke(_, _, _)
RECURSIVE CallAndResolve(_, _, _, _)
RECURSIVE ApplyTransform(_, _, _)
RECURSIVE Load(_, _)
RECURSIVE DispatchQueue(_)
RECURSIVE SettleLoop(_, _, _)
RECURSIVE EvictLoop(_, _, _, _)
RECURSIVE RunAllCallbacks(_, _)
RECURSIVE AddCallback(_, _, _)
RECURSIVE RunAllCallbacks_Lifo(_, _)
RECURSIVE FieldProcessResult(_, _, _, _, _)
RECURSIVE FieldProcessCompleted(_, _, _, _, _)
RECURSIVE FieldsProcessResult(_, _, _, _)
RECURSIVE ProcessItem(_, _, _, _, _, _)
RECURSIVE CompleteValue(_, _, _, _)
RECURSIVE CompleteListValue(_, _, _, _)
RECURSIVE ListLoop(_, _, _, _, _, _)
RECURSIVE LoadEach(_, _, _, _)
RECURSIVE FieldsLoop(_, _, _, _, _)
RECURSIVE DrainDeferred(_)
RECURSIVE ExecuteFields(_, _, _)
RECURSIVE ItemProcessCompleted(_, _, _, _, _, _, _)

\* SyncFuture.done
Done(m, f) == m.futs[f].state # PENDING

\* result without _assert_state
Result_Unchecked(m, f) ==
    IF m.futs[f].exception # None THEN Raise(m, m.futs[f].exception)
    ELSE Return(m, m.futs[f].result)

\* SyncFuture.result: the value, or the stored exception re-raised, or
\* InvalidStateError on a pending future
Result(m, f) ==
    IF m.futs[f].state # FINISHED THEN Raise(m, InvalidStateError)
    ELSE IF m.futs[f].exception # None THEN Raise(m, m.futs[f].exception)
    ELSE Return(m, m.futs[f].result)

\* SyncFuture.add_done_callback
AddDoneCallback(m, f, cb) ==
    IF m.futs[f].state # PENDING THEN Raise(m, InvalidStateError)
    ELSE Return([m EXCEPT !.futs[f].callbacks = Append(@, cb)], None)

\* SyncFuture._finish: the callbacks run in order, each with self._result; an
\* exception of a callback ends the loop and propagates
RunCallbacks(m, cbs, i, arg) ==
    IF i > Len(cbs) THEN Return(m, None)
    ELSE Bind(Invoke(m, cbs[i], arg), LAMBDA r :
             IF Raised(r) THEN r ELSE RunCallbacks(r, cbs, i + 1, arg))

Finish(m, f) ==
    RunCallbacks([m EXCEPT !.futs[f].state = FINISHED,
                           !.futs[f].callbacks = <<>>],
                 m.futs[f].callbacks, 1, m.futs[f].result)

\* set_result without its else: after the flattening is registered the future
\* is settled with the inner future itself
SetResult_FallsThrough(m, f, x) ==
    IF x = Fut(f) THEN Raise(m, SelfResolveError)
    ELSE Bind(IF IsFut(x) THEN AddDoneCallback(m, x.v, CbSetResult(f)) ELSE m,
              LAMBDA r :
                  IF Raised(r) THEN r
                  ELSE IF r.futs[f].state # PENDING
                  THEN Raise(r, InvalidStateError)
                  ELSE Finish([r EXCEPT !.futs[f].result = x], f))

\* SyncFuture.set_result
SetResult(m, f, x) ==
    IF x = Fut(f) THEN Raise(m, SelfResolveError)
    ELSE IF IsFut(x) THEN AddDoneCallback(m, x.v, CbSetResult(f))
    ELSE IF m.futs[f].state # PENDING THEN Raise(m, InvalidStateError)
    ELSE Finish([m EXCEPT !.futs[f].result = x], f)

\* set_exception without _assert_state
SetException_Unchecked(m, f, e) ==
    Finish([m EXCEPT !.futs[f].exception = e], f)

\* SyncFuture.set_exception
SetException(m, f, e) ==
    IF m.futs[f].state # PENDING THEN Raise(m, InvalidStateError)
    ELSE Finish([m EXCEPT !.futs[f].exception = e], f)

\* SyncFuture.then: the new future, with call_and_resolve registered on self
Then(m, f, t) ==
    Bind(AddDoneCallback([m EXCEPT !.futs = Append(@, NewFut)], f,
                         CbCallAndResolve(Len(m.futs) + 1, t)),
         LAMBDA r : IF Raised(r) THEN r ELSE Return(r, Fut(Len(m.futs) + 1)))

\* call_and_resolve that hands on the value without calling on_complete
CallAndResolve_SkipsTransform(m, ret, t, v) ==
    Bind(SetResult(m, ret, v), LAMBDA r2 :
         IF Raised(r2) THEN SetException(Caught(r2), ret, r2.exc)
         ELSE Return(r2, None))

\* the closure call_and_resolve of then
CallAndResolve(m, ret, t, v) ==
    Bind(ApplyTransform(m, t, v), LAMBDA r1 :
    Bind(IF Raised(r1) THEN r1 ELSE SetResult(r1, ret, r1.ret), LAMBDA r2 :
         IF Raised(r2) THEN SetException(Caught(r2), ret, r2.exc)
         ELSE Return(r2, None)))

\* user["best_friend"] of a fetched value
Ref(n) == (n % MaxKey) + 1

\* the on_complete functions; arithmetic and subscripting of None raise TypeError
ApplyTransform(m, t, v) ==
    CASE t.k = "double" ->
           IF v.t = "val" THEN Return(m, Val(2 * v.v))
           ELSE Raise(m, OperandTypeError)
      [] t.k = "succ" ->
           IF v.t = "val" THEN Return(m, Val(v.v + 1))
           ELSE Raise(m, OperandTypeError)
      [] t.k = "succ_double" ->
           IF v.t = "val" THEN Return(m, Val((2 * v.v) + 1))
           ELSE Raise(m, OperandTypeError)
      [] t.k = "fut" -> Return(m, Fut(t.a))
      [] t.k = "raise" -> Raise(m, UserError(t.a))
      [] t.k = "load_ref" ->
           IF v.t = "val" THEN Load(m, Ref(v.v))
           ELSE Raise(m, OperandTypeError)
      [] OTHER -> Return(m, None)

\* a callback called with one argument
Invoke(m, cb, arg) ==
    CASE cb.k = "set_result" -> SetResult(m, cb.a, arg)
      [] cb.k = "call_and_resolve" -> CallAndResolve(m, cb.a, cb.t, arg)
      [] cb.k = "record" ->
           Return([m EXCEPT !.log = Append(@, <<cb.a, cb.t.a>>)], None)
      [] cb.k = "raise" -> Raise(m, UserError(cb.t.a))
      [] cb.k = "dispatch_queue" -> DispatchQueue(m)
      [] cb.k = "add_callback" ->
           Return(AddCallback([m EXCEPT !.log = Append(@, <<cb.a, cb.t.a>>)],
                              cb.a, CbRecord(cb.a, cb.t.a + MaxAdds)), None)
      [] cb.k = "field_process_result" ->
           FieldProcessResult(m, cb.a, cb.t.src, cb.t.ty, cb.t.path)
      [] cb.k = "field_process_completed" ->
           FieldProcessCompleted(m, cb.a, cb.t.src, cb.t.ty, cb.t.path)
      [] cb.k = "fields_process_result" ->
           FieldsProcessResult(m, cb.a, cb.t.name, cb.t.src)
      [] cb.k = "process_item" ->
           ProcessItem(m, cb.a, cb.t.index, cb.t.src, cb.t.ty, cb.t.path)
      [] cb.k = "item_process_completed" ->
           ItemProcessCompleted(m, cb.a, cb.t.index, cb.t.src, cb.t.ty,
                                cb.t.path, cb.t.counted)
      [] OTHER -> Return(m, None)

\* DataloaderBatchCallbacks.add_callback
AddCallback(m, s, cb) == [m EXCEPT !.scopes[s].callbacks = Append(@, cb)]

\* a load that does not look into the cache
Load_IgnoresCache(m, key) ==
    LET future == Len(m.futs) + 1
        m1 == [m EXCEPT !.futs = Append(@, NewFut),
                        !.queue = Append(@, [key |-> key, fut |-> future])]
    IN IF m.queue = <<>> /\ m.current = 0 THEN Raise(m1, ConfigError)
       ELSE Return([IF m.queue = <<>>
                    THEN AddCallback(m1, m.current, CbDispatch)
                    ELSE m1 EXCEPT !.cache[key] = future], Fut(future))

\* SyncDataLoader.load
Load(m, key) ==
    IF m.cache[key] # 0 THEN Return(m, Fut(m.cache[key]))
    ELSE LET future == Len(m.futs) + 1
             needs_dispatch == m.queue = <<>>
             m1 == [m EXCEPT !.futs = Append(@, NewFut),
                             !.queue = Append(@, [key |-> key, fut |-> future])]
         IN IF needs_dispatch /\ m.current = 0 THEN Raise(m1, ConfigError)
            ELSE Return([IF needs_dispatch
                         THEN AddCallback(m1, m.current, CbDispatch)
                         ELSE m1 EXCEPT !.cache[key] = future], Fut(future))

\* a clear that also drops the key's entries from the pending queue
Clear_Dequeues(m, key) ==
    Return([m EXCEPT !.cache[key] = 0,
                     !.queue = SelectSeq(@, LAMBDA e : e.key # key)], None)

\* SyncDataLoader.clear
Clear(m, key) == Return([m EXCEPT !.cache[key] = 0], None)


\* the batch functions a loader is built with: FnValues(e) returns one entry per
\* key, an exception object for key e and the key's value for the others;
\* FnRaises raises; FnMalformed returns no collection, or one of another length
FnValues(e) == [k |-> "values", a |-> e]
FnRaises == [k |-> "raises", a |-> 0]
FnMalformed == [k |-> "malformed", a |-> 0]

FetchedValue(fn, key) == IF key = fn.a THEN UserError(key) ELSE Val(key)

\* SyncDataLoader.dispatch_queue, the loop of the try block: queue[i] is
\* settled with its value; an exception object fails it
SettleLoop(m, q, i) ==
    IF i > Len(q) THEN Return(m, None)
    ELSE LET value == FetchedValue(m.fn, q[i].key)
         IN Bind(IF IsExc(value) THEN SetException(m, q[i].fut, value)
                 ELSE SetResult(m, q[i].fut, value),
                 LAMBDA r : IF Raised(r) THEN r ELSE SettleLoop(r, q, i + 1))

\* SyncDataLoader.dispatch_queue, the loop of the except block
EvictLoop(m, q, i, error) ==
    IF i > Len(q) THEN Return(m, None)
    ELSE Bind(IF Done(m, q[i].fut) THEN Clear(m, q[i].key)
              ELSE SetException(Clear(m, q[i].key), q[i].fut, error),
              LAMBDA r : IF Raised(r) THEN r ELSE EvictLoop(r, q, i + 1, error))

\* dispatch_queue without the check of what the batch function returned
DispatchQueue_Unchecked(m) ==
    LET q == m.queue
        keys == [i \in 1..Len(q) |-> q[i].key]
        m1 == [m EXCEPT !.queue = <<>>, !.calls = Append(@, keys)]
    IN IF q = <<>> THEN Return(m, None)
       ELSE IF m.fn.k = "raises" THEN Raise(m1, UserError(0))
       ELSE Bind(SettleLoop(m1, q, 1), LAMBDA r :
                 IF Raised(r) THEN EvictLoop(Caught(r), q, 1, r.exc)
                 ELSE Return(r, None))

\* a dispatch that takes the keys of the batch out of the cache before it
\* settles their futures
DispatchQueue_EvictsFirst(m) ==
    LET q == m.queue
        keys == [i \in 1..Len(q) |-> q[i].key]
        m1 == [m EXCEPT !.queue = <<>>, !.calls = Append(@, keys),
                        !.cache = [k \in Keys |->
                                      IF \E i \in DOMAIN q : q[i].key = k
                                      THEN 0 ELSE @[k]]]
    IN IF q = <<>> THEN Return(m, None)
       ELSE IF m.fn.k = "raises" THEN Raise(m1, UserError(0))
       ELSE IF m.fn.k = "malformed" THEN Raise(m1, BatchResultError)
       ELSE Bind(SettleLoop(m1, q, 1), LAMBDA r :
                 IF Raised(r) THEN EvictLoop(Caught(r), q, 1, r.exc)
                 ELSE Return(r, None))

\* SyncDataLoader.dispatch_queue
DispatchQueue(m) ==
    LET q == m.queue
        keys == [i \in 1..Len(q) |-> q[i].key]
        m1 == [m EXCEPT !.queue = <<>>, !.calls = Append(@, keys)]
    IN IF q = <<>> THEN Return(m, None)
       ELSE IF m.fn.k = "raises" THEN Raise(m1, UserError(0))
       ELSE IF m.fn.k = "malformed" THEN Raise(m1, BatchResultError)
       ELSE Bind(SettleLoop(m1, q, 1), LAMBDA r :
                 IF Raised(r) THEN EvictLoop(Caught(r), q, 1, r.exc)
                 ELSE Return(r, None))

\* a drain that pops the newest callback, not the oldest
RunAllCallbacks_Lifo(m, s) ==
    LET callbacks == m.scopes[s].callbacks
        n == Len(callbacks)
    IN IF callbacks = <<>> THEN Return(m, None)
       ELSE Bind(Invoke([m EXCEPT !.scopes[s].callbacks = SubSeq(@, 1, n - 1)],
                        callbacks[n], None),
                 LAMBDA r : IF Raised(r) THEN r
                            ELSE RunAllCallbacks_Lifo(r, s))

\* DataloaderBatchCallbacks.run_all_callbacks
RunAllCallbacks(m, s) ==
    IF m.scopes[s].callbacks = <<>> THEN Return(m, None)
    ELSE Bind(Invoke([m EXCEPT !.scopes[s].callbacks = Tail(@)],
                     Head(m.scopes[s].callbacks), None),
              LAMBDA r : IF Raised(r) THEN r ELSE RunAllCallbacks(r, s))

\* DataloaderBatchCallbacks(): a scope that was never entered
NewScope == [callbacks |-> <<>>, token |-> -1]

\* DataloaderBatchCallbacks.__enter__: the token keeps the value the context
\* variable had
Enter(m, s) ==
    Return([m EXCEPT !.scopes[s].token = m.current, !.current = s], None)

\* DataloaderBatchCallbacks.__exit__: the context variable is reset only when
\* run_all_callbacks returns
Exit(m, s) ==
    Bind(RunAllCallbacks(m, s), LAMBDA r :
         IF Raised(r) THEN r
         ELSE Return([r EXCEPT !.current = r.scopes[s].token], None))


-----------------------------------------------------------------------------
(* DeferredExecutionContext.  The context keeps the deferred callbacks and *)
(* the located errors; objs and lists are the result dicts and lists that  *)
(* the closures of execute_fields_serially and complete_list_value share,  *)
(* with their counters of unresolved entries and their futures (0: the     *)
(* variable future is not assigned yet).                                   *)

NewContext == [deferred |-> <<>>, errors |-> <<>>, objs |-> <<>>, lists |-> <<>>]

\* the types of the schema: a leaf, an object with a selection of sub-fields
\* (sub), or a list of one of these, nullable or not
Type(list, nonnull, item_nonnull) ==
    [list |-> list, nonnull |-> nonnull, item_nonnull |-> item_nonnull,
     sub |-> <<>>]
ObjectType(list, sub) == [Type(list, FALSE, FALSE) EXCEPT !.sub = sub]
ItemType(ty) == [Type(FALSE, ty.item_nonnull, FALSE) EXCEPT !.sub = ty.sub]

\* located_error: an error that has a path keeps it
Located(e, path) == IF e.p # <<>> THEN e ELSE [e EXCEPT !.p = path]

\* handle_field_error of graphql-core, called with located_error(raw_error):
\* the error of a non-null type is raised, another is recorded
HandleFieldError(m, raw_error, path, ty) ==
    LET error == Located(raw_error, path)
    IN IF ty.nonnull THEN Raise(m, error)
       ELSE Return([m EXCEPT !.ctx.errors = Append(@, error)], None)

\* a dict that moves a key that is assigned again to the end
DictSet_Reinserts(d, name, v) ==
    Append(SelectSeq(d, LAMBDA e : e.name # name), [name |-> name, v |-> v])

\* a dict keeps the position of a key that is assigned again
DictSet(d, name, v) ==
    IF \E i \in 1..Len(d) : d[i].name = name
    THEN [i \in 1..Len(d) |-> IF d[i].name = name
                               THEN [name |-> name, v |-> v] ELSE d[i]]
    ELSE Append(d, [name |-> name, v |-> v])

DictDel(d, name) == SelectSeq(d, LAMBDA e : e.name # name)

\* complete_value of graphql-core: an exception object is raised, a null of a
\* non-null type is an error, a list goes to complete_list_value, an object to
\* execute_fields with its sub-selection, a leaf value is the result
CompleteValue(m, ty, path, result) ==
    IF IsExc(result) THEN Raise(m, result)
    ELSE Bind(IF result = None THEN Return(m, None)
              ELSE IF ty.list THEN CompleteListValue(m, ty, path, result)
              ELSE IF ty.sub # <<>> THEN ExecuteFields(m, ty.sub, path)
              ELSE Return(m, result),
              LAMBDA r :
                  IF Raised(r) THEN r
                  ELSE IF ty.nonnull /\ r.ret = None
                  THEN Raise(r, NullValueError)
                  ELSE r)

\* complete_list_value, the end of a list whose entries are all resolved
ListResolved(m, l) ==
    LET m1 == [m EXCEPT !.ctx.lists[l].unresolved = @ - 1]
        future == m.ctx.lists[l].future
    IN IF m1.ctx.lists[l].unresolved # 0 THEN Return(m1, None)
       ELSE IF future = 0 THEN Raise(m1, UnboundFutureError)
       ELSE SetResult(m1, future, ListVal(l))

\* the closures process_completed of complete_list_value: the one of the loop
\* is counted among the unresolved entries of the list, the one of
\* process_item is not
ItemProcessCompleted(m, l, index, completed, ty, item_path, counted) ==
    Bind(Result(m, completed), LAMBDA r1 :
    Bind(IF Raised(r1)
         THEN HandleFieldError(Caught(r1), r1.exc, item_path, ItemType(ty))
         ELSE [r1 EXCEPT !.ctx.lists[l].results[index] = r1.ret], LAMBDA r2 :
         IF Raised(r2) THEN r2
         ELSE IF counted THEN ListResolved(r2, l)
         ELSE Return(r2, None)))

\* complete_list_value, what is done with the completed value of an item: a
\* pending future gets process_completed as a callback
StoreItem(m, l, ty, item_path, completed, i, counted) ==
    IF ~IsFut(completed) THEN [m EXCEPT !.ctx.lists[l].results[i] = completed]
    ELSE IF Done(m, completed.v)
    THEN Bind(Result(m, completed.v), LAMBDA r :
              IF Raised(r) THEN r
              ELSE [r EXCEPT !.ctx.lists[l].results[i] = r.ret])
    ELSE LET callback == m.futs[completed.v].deferred_callback
             m1 == IF counted /\ callback # NoCb
                   THEN [m EXCEPT !.ctx.deferred = Append(@, callback)]
                   ELSE m
             m2 == IF counted
                   THEN [m1 EXCEPT !.ctx.lists[l].unresolved = @ + 1]
                   ELSE m1
         IN AddDoneCallback(m2, completed.v,
                CbItemCompleted(l, i, completed.v, ty, item_path, counted))

\* complete_list_value, the body of the loop for an item that is no pending
\* future, and the try block of process_item
CompleteItem(m, l, ty, item_path, item, i, counted) ==
    Bind(IF IsFut(item) THEN Result(m, item.v) ELSE Return(m, item),
         LAMBDA r1 :
    Bind(IF Raised(r1) THEN r1
         ELSE CompleteValue(r1, ItemType(ty), item_path, r1.ret),
         LAMBDA r2 :
    Bind(IF Raised(r2) THEN r2
         ELSE StoreItem(r2, l, ty, item_path, r2.ret, i, counted),
         LAMBDA r3 :
             IF Raised(r3)
             THEN HandleFieldError(Caught(r3), r3.exc, item_path, ItemType(ty))
             ELSE r3)))

\* complete_list_value, the body of the loop for a pending future
AwaitItem(m, l, ty, item_path, item, i) ==
    LET callback == m.futs[item.v].deferred_callback
        m1 == IF callback # NoCb
              THEN [m EXCEPT !.ctx.deferred = Append(@, callback)]
              ELSE m
    IN AddDoneCallback([m1 EXCEPT !.ctx.lists[l].unresolved = @ + 1], item.v,
                       CbProcessItem(l, i, item.v, ty, item_path))

\* complete_list_value, the loop over the items (index i - 1) and its end
ListLoop(m, l, ty, path, items, i) ==
    IF i > Len(items)
    THEN IF m.ctx.lists[l].unresolved = 0 THEN Return(m, ListVal(l))
         ELSE Return([m EXCEPT !.futs = Append(@, NewFut),
                               !.ctx.lists[l].future = Len(m.futs) + 1],
                     Fut(Len(m.futs) + 1))
    ELSE Bind(IF IsFut(items[i]) /\ ~Done(m, items[i].v)
              THEN AwaitItem(m, l, ty, path \o <<i - 1>>, items[i], i)
              ELSE CompleteItem(m, l, ty, path \o <<i - 1>>, items[i], i, TRUE),
              LAMBDA r :
                  IF Raised(r) THEN r
                  ELSE ListLoop(r, l, ty, path, items, i + 1))

\* complete_list_value
CompleteListValue(m, ty, path, result) ==
    IF result.t # "items" THEN Raise(m, NotIterableError)
    ELSE ListLoop([m EXCEPT !.ctx.lists = Append(@,
                       [results |-> [i \in 1..Len(result.v) |-> None],
                        unresolved |-> 0, future |-> 0])],
                  Len(m.ctx.lists) + 1, ty, path, result.v, 1)

\* the closure process_item of complete_list_value
ProcessItem(m, l, index, item, ty, item_path) ==
    Bind(CompleteItem(m, l, ty, item_path, Fut(item), index, FALSE),
         LAMBDA r3 :
         LET m4 == [r3 EXCEPT !.ctx.lists[l].unresolved = @ - 1]
             future == r3.ctx.lists[l].future
         IN IF Raised(r3) THEN r3
            ELSE IF m4.ctx.lists[l].unresolved # 0 THEN Return(m4, None)
            ELSE IF future = 0 THEN Raise(m4, UnboundFutureError)
            ELSE SetResult(m4, future, ListVal(l)))

\* the except block of the closures of execute_field
FieldError(m, future, ty, path) ==
    Bind(HandleFieldError(Caught(m), m.exc, path, ty), LAMBDA r :
         IF Raised(r) THEN r ELSE SetResult(r, future, None))

\* the closure process_completed of execute_field
FieldProcessCompleted(m, future, completed, ty, path) ==
    Bind(Result(m, completed), LAMBDA r1 :
    Bind(IF Raised(r1) THEN r1 ELSE SetResult(r1, future, r1.ret), LAMBDA r2 :
         IF Raised(r2) THEN FieldError(r2, future, ty, path)
         ELSE Return(r2, None)))

\* the closure process_result of execute_field, after complete_value
FieldCompleted(m, future, completed, ty, path) ==
    IF ~IsFut(completed) THEN SetResult(m, future, completed)
    ELSE IF Done(m, completed.v)
    THEN FieldProcessCompleted(m, future, completed.v, ty, path)
    ELSE AddDoneCallback(m, completed.v,
                         CbFieldCompleted(future, completed.v, ty, path))

\* the closure process_result of execute_field
FieldProcessResult(m, future, result, ty, path) ==
    Bind(Result(m, result), LAMBDA r1 :
    Bind(IF Raised(r1) THEN r1 ELSE CompleteValue(r1, ty, path, r1.ret),
         LAMBDA r2 :
    Bind(IF Raised(r2) THEN r2
         ELSE FieldCompleted(r2, future, r2.ret, ty, path), LAMBDA r3 :
         IF Raised(r3) THEN FieldError(r3, future, ty, path)
         ELSE Return(r3, None))))

\* process_result of execute_fields_serially without the counter: the first
\* field that settles settles the level
FieldsProcessResult_SettlesAtOnce(m, o, name, result) ==
    Bind(Result(m, result), LAMBDA r1 :
         LET m2 == [r1 EXCEPT
                      !.ctx.objs[o].results =
                          IF r1.ret # Undefined THEN DictSet(@, name, r1.ret)
                          ELSE DictDel(@, name),
                      !.ctx.objs[o].unresolved = @ - 1]
             future == r1.ctx.objs[o].future
         IN IF Raised(r1) THEN r1
            ELSE IF future = 0 THEN Raise(m2, UnboundFutureError)
            ELSE SetResult(m2, future, DictVal(o)))

\* the closure process_result of execute_fields_serially
FieldsProcessResult(m, o, name, result) ==
    Bind(Result(m, result), LAMBDA r1 :
         LET m2 == [r1 EXCEPT
                      !.ctx.objs[o].results =
                          IF r1.ret # Undefined THEN DictSet(@, name, r1.ret)
                          ELSE DictDel(@, name),
                      !.ctx.objs[o].unresolved = @ - 1]
             future == r1.ctx.objs[o].future
         IN IF Raised(r1) THEN r1
            ELSE IF m2.ctx.objs[o].unresolved # 0 THEN Return(m2, None)
            ELSE IF future = 0 THEN Raise(m2, UnboundFutureError)
            ELSE SetResult(m2, future, DictVal(o)))

\* the resolvers of the schema (tests/test_dataloader.py)
RValue(n) == [k |-> "value", a |-> n]       \* returns a value
RLoad(key) == [k |-> "load", a |-> key]     \* returns loader.load(key)
RChain(key) == [k |-> "chain", a |-> key]   \* load(key).then(load its ref)
RLoads(keys) == [k |-> "loads", a |-> keys] \* [loader.load(k) for k in keys]
RFuture(f) == [k |-> "future", a |-> f]     \* returns a future of the client
RHinted(key) == [k |-> "hinted", a |-> key] \* load(key), dispatch as its hint
RMissing == [k |-> "missing", a |-> 0]      \* the schema has no such field

\* [loader.load(k) for k in keys]
LoadEach(m, keys, i, acc) ==
    IF i > Len(keys) THEN Return(m, Items(acc))
    ELSE Bind(Load(m, keys[i]), LAMBDA r :
              IF Raised(r) THEN r
              ELSE LoadEach(r, keys, i + 1, Append(acc, r.ret)))

\* resolve_fn(source, info, **args)
Resolve(m, res) ==
    CASE res.k = "value" -> Return(m, Val(res.a))
      [] res.k = "load" -> Load(m, res.a)
      [] res.k = "chain" ->
           Bind(Load(m, res.a), LAMBDA r :
                IF Raised(r) THEN r ELSE Then(r, r.ret.v, TLoadRef))
      [] res.k = "loads" -> LoadEach(m, res.a, 1, <<>>)
      [] res.k = "future" -> Return(m, Fut(res.a))
      [] res.k = "hinted" ->
           Bind(Load(m, res.a), LAMBDA r :
                IF Raised(r) THEN r
                ELSE [r EXCEPT !.futs[r.ret.v].deferred_callback = CbDispatch])
      [] OTHER -> Return(m, None)

\* execute_field, a resolver returned a pending future
AwaitField(m, result, ty, path) ==
    LET callback == m.futs[result].deferred_callback
        m1 == IF callback # NoCb
              THEN [m EXCEPT !.ctx.deferred = Append(@, callback)]
              ELSE m
        future == Len(m.futs) + 1
    IN Return(AddDoneCallback([m1 EXCEPT !.futs = Append(@, NewFut)], result,
                              CbFieldResult(future, result, ty, path)),
              Fut(future))

\* execute_field, after complete_value.  For a completed future that is done
\* process_completed runs before future is assigned, and what it returns is
\* None.
AwaitCompleted(m, completed, ty, path) ==
    IF ~IsFut(completed) THEN m
    ELSE IF Done(m, completed.v)
    THEN Bind(HandleFieldError(m, UnboundFutureError, path, ty), LAMBDA r :
              IF Raised(r) THEN r ELSE Raise(r, UnboundFutureError))
    ELSE Return(AddDoneCallback([m EXCEPT !.futs = Append(@, NewFut)],
                    completed.v,
                    CbFieldCompleted(Len(m.futs) + 1, completed.v, ty, path)),
                Fut(Len(m.futs) + 1))

\* execute_field, the try block
ResolveAndComplete(m, field, path) ==
    Bind(Resolve(m, field.res), LAMBDA r :
         IF Raised(r) THEN r
         ELSE IF IsFut(r.ret) /\ ~Done(r, r.ret.v)
         THEN AwaitField(r, r.ret.v, field.ty, path)
         ELSE Bind(IF IsFut(r.ret) THEN Result(r, r.ret.v) ELSE r, LAMBDA r1 :
              Bind(IF Raised(r1) THEN r1
                   ELSE CompleteValue(r1, field.ty, path, r1.ret), LAMBDA r2 :
                   IF Raised(r2) THEN r2
                   ELSE AwaitCompleted(r2, r2.ret, field.ty, path))))

\* execute_field
ExecuteField(m, field, path) ==
    IF field.res = RMissing THEN Return(m, Undefined)
    ELSE Bind(ResolveAndComplete(m, field, path), LAMBDA r :
              IF Raised(r)
              THEN HandleFieldError(Caught(r), r.exc, path, field.ty)
              ELSE r)

\* execute_fields_serially, the body of the loop after execute_field; the
\* response name of a field is its position in the selection
StoreField(m, o, i, result) ==
    IF IsFut(result) /\ ~Done(m, result.v)
    THEN AddDoneCallback(
             [m EXCEPT !.ctx.objs[o].results = DictSet(@, i, PENDING_FUTURE),
                       !.ctx.objs[o].unresolved = @ + 1],
             result.v, CbFieldsResult(o, i, result.v))
    ELSE Bind(IF IsFut(result) THEN Result(m, result.v) ELSE m, LAMBDA r1 :
              IF Raised(r1) \/ r1.ret = Undefined THEN r1
              ELSE [r1 EXCEPT !.ctx.objs[o].results = DictSet(@, i, r1.ret)])

\* execute_fields_serially, the loop over the fields and its end
FieldsLoop(m, o, fields, path, i) ==
    IF i > Len(fields)
    THEN IF m.ctx.objs[o].unresolved = 0 THEN Return(m, DictVal(o))
         ELSE Return([m EXCEPT !.futs = Append(@, NewFut),
                               !.ctx.objs[o].future = Len(m.futs) + 1],
                     Fut(Len(m.futs) + 1))
    ELSE Bind(ExecuteField(m, fields[i], path \o <<i>>), LAMBDA r :
         Bind(IF Raised(r) THEN r ELSE StoreField(r, o, i, r.ret), LAMBDA r1 :
              IF Raised(r1) THEN r1
              ELSE FieldsLoop(r1, o, fields, path, i + 1)))

\* execute_fields_serially
ExecuteFields(m, fields, path) ==
    FieldsLoop([m EXCEPT !.ctx.objs = Append(@,
                    [results |-> <<>>, unresolved |-> 0, future |-> 0,
                     fields |-> fields])],
               Len(m.ctx.objs) + 1, fields, path, 1)

\* execute_operation, the loop over the deferred callbacks
DrainDeferred(m) ==
    IF m.ctx.deferred = <<>> THEN Return(m, None)
    ELSE Bind(Invoke([m EXCEPT !.ctx.deferred = Tail(@)],
                     Head(m.ctx.deferred), None),
              LAMBDA r : IF Raised(r) THEN r ELSE DrainDeferred(r))

\* DeferredExecutionContext.execute_operation on a new context
ExecuteOperation(m, fields) ==
    Bind(ExecuteFields([m EXCEPT !.ctx = NewContext], fields, <<>>), LAMBDA r :
    Bind(IF Raised(r) THEN r ELSE DrainDeferred(r), LAMBDA r1 :
         IF Raised(r1) THEN r1
         ELSE IF ~IsFut(r.ret) THEN Return(r1, r.ret)
         ELSE IF ~Done(r1, r.ret.v) THEN Raise(r1, IncompleteError)
         ELSE Result(r1, r.ret.v)))

-----------------------------------------------------------------------------
(* The client program: what it called last, and what it knows of its futures *)

FutIds == 1..Len(futs)

\* the operation left the program state as it was
Unchanged(r) ==
    /\ r.futs = futs /\ r.cache = cache /\ r.queue = queue
    /\ r.scopes = scopes /\ r.current = current /\ r.calls = calls
    /\ r.log = log /\ r.ctx = ctx

\* The machine state an operation returned becomes the program state.  A call
\* that raised and changed nothing ends the run: whatever the client does
\* after catching it, it can do without having made the call.  last is
\* the call and how it came back: the receiver (of a call that returned),
\* whether the receiver was done before the call, the exception raised, the
\* value returned
Commit(r, op, f) ==
    /\ futs' = r.futs
    /\ cache' = r.cache
    /\ queue' = r.queue
    /\ scopes' = r.scopes
    /\ current' = r.current
    /\ ctx' = r.ctx
    /\ calls' = r.calls
    /\ log' = r.log
    /\ last' = [op |-> op, f |-> IF Raised(r) THEN 0 ELSE f,
                done |-> f \in FutIds /\ futs[f].state # PENDING,
                exc |-> r.exc, ret |-> r.ret]
    /\ pc = "run"
    /\ pc' = IF Raised(r) /\ Unchanged(r) THEN "raised" ELSE "run"
    /\ UNCHANGED batch_load_fn

NoCall == [op |-> "none", f |-> 0, done |-> FALSE, exc |-> None, ret |-> None]

NoCycle == [open |-> FALSE, req |-> <<>>, calls0 |-> 0, plain |-> TRUE]

NoHist == [regs |-> 0, used |-> 0, thens |-> {}, links |-> <<>>,
           touched |-> {}, observed |-> {},
           withs |-> <<>>, cyc |-> NoCycle, got |-> [k \in Keys |-> {}],
           cleared |-> {}, key |-> 0,
           query |-> <<>>, result |-> None, order |-> <<>>, arg |-> None,
           recv |-> 0, adds |-> 0, scope |-> 0]

\* The futures the client built with SyncFuture() are alike until used, so it
\* takes them in the order it built them: one it has used already, the next
\* unused one, or one that then returned.
Raw(f) == \A th \in hist.thens : th.ret # f
Usable(used) == {f \in FutIds : f <= used + 1 \/ ~Raw(f)}
UsedWith(used, f) == IF Raw(f) /\ f > used THEN f ELSE used

Reg == [hist EXCEPT !.regs = @ + 1]

-----------------------------------------------------------------------------
(* SpecFuture: a client of SyncFuture alone *)

InitFuture ==
    /\ futs = <<>>
    /\ cache = [k \in Keys |-> 0]
    /\ queue = <<>>
    /\ scopes = <<>>
    /\ current = 0
    /\ ctx = NewContext
    /\ batch_load_fn = FnValues(0)
    /\ calls = <<>>
    /\ log = <<>>
    /\ last = NoCall
    /\ hist = NoHist
    /\ pc = "run"

\* f = SyncFuture(); the client builds its futures before it uses any
FNew ==
    /\ Len(futs) < MaxFuts
    /\ last.op \in {"none", "new"}
    /\ Commit([Mach EXCEPT !.futs = Append(@, NewFut),
                           !.ret = Fut(Len(futs) + 1)],
              "new", Len(futs) + 1)
    /\ UNCHANGED hist

\* f.set_result(v), v a plain value
FSetResult ==
    \E f \in Usable(hist.used), v \in Plain :
        /\ Commit(SetResult(Mach, f, Val(v)), "set_result", f)
        /\ hist' = IF Done(Mach, f) THEN hist
                   ELSE [hist EXCEPT !.touched = @ \cup {f},
                                     !.used = UsedWith(@, f),
                                     !.arg = Val(v)]

\* a.set_result(b), b a future; the client notes the call that raised
FSetResultFut ==
    \E a \in Usable(hist.used) :
      \E b \in Usable(UsedWith(hist.used, a)) :
        /\ hist.regs < MaxCbs
        /\ LET r == SetResult(Mach, a, Fut(b))
           IN /\ Commit(r, "set_result_future", a)
              /\ hist' = IF Raised(r)
                         THEN [hist EXCEPT !.recv = a, !.arg = Fut(b)]
                         ELSE [Reg EXCEPT
                                 !.links = Append(@, <<a, b>>),
                                 !.used = UsedWith(UsedWith(@, a), b)]

\* f.set_exception(e)
FSetException ==
    \E f \in Usable(hist.used) :
        /\ Commit(SetException(Mach, f, UserError(1)), "set_exception", f)
        /\ hist' = IF Done(Mach, f) THEN hist
                   ELSE [hist EXCEPT !.touched = @ \cup {f},
                                     !.used = UsedWith(@, f)]

\* f.add_done_callback(cb), cb an observer that notes that it ran, or raises
FAddDoneCallback ==
    \E f \in Usable(hist.used), k \in {"record", "raise"} :
        /\ hist.regs < MaxCbs
        /\ LET tag == Len(futs[f].callbacks) + 1
               cb == [k |-> k, a |-> f, t |-> [k |-> "tag", a |-> tag]]
               r == AddDoneCallback(Mach, f, cb)
           IN /\ Commit(r, "add_done_callback", f)
              /\ hist' = IF Raised(r) THEN hist
                         ELSE IF k = "raise"
                              THEN [Reg EXCEPT !.used = UsedWith(@, f)]
                         ELSE [Reg EXCEPT !.observed = @ \cup {<<f, tag>>},
                                          !.used = UsedWith(@, f)]

\* f.result(); the client may call it again and again, whatever it raised
FResult ==
    \E f \in Usable(hist.used) :
        LET r == Result(Mach, f)
        IN /\ pc = "run"
           /\ last' = [op |-> "result", f |-> f, done |-> Done(Mach, f),
                       exc |-> r.exc, ret |-> r.ret]
           /\ futs' = r.futs
           /\ log' = r.log
           /\ UNCHANGED <<cache, queue, scopes, current, batch_load_fn, ctx,
                          calls, hist, pc>>

ThenTransforms(used) ==
    {TDouble, TSucc, TSuccDouble, TRaise(2)}
    \cup {TFut(b) : b \in Usable(used)}

\* g = f.then(t)
FThen ==
    \E f \in Usable(hist.used) :
      \E t \in ThenTransforms(UsedWith(hist.used, f)) :
        /\ hist.regs < MaxCbs
        /\ Len(futs) < MaxFuts
        /\ LET r == Then(Mach, f, t)
           IN /\ Commit(r, "then", f)
              /\ hist' = IF Raised(r) THEN hist
                         ELSE [Reg EXCEPT
                                 !.thens = @ \cup
                                     {[ret |-> r.ret.v, src |-> f, t |-> t]},
                                 !.used = IF t.k = "fut"
                                          THEN UsedWith(UsedWith(@, f), t.a)
                                          ELSE UsedWith(@, f)]

NextFuture ==
    \/ FNew
    \/ FSetResult
    \/ FSetResultFut
    \/ FSetException
    \/ FAddDoneCallback
    \/ FThen
    \/ FResult

SpecFuture == InitFuture /\ [][NextFuture]_vars


-----------------------------------------------------------------------------
(* Notions the properties of SyncFuture are stated with *)

Pending(f) == futs[f].state = PENDING
Settled(f) == futs[f].state = FINISHED /\ futs[f].exception = None
Failed(f) == futs[f].state = FINISHED /\ futs[f].exception # None

\* a waits on b: b holds the bound method a.set_result as a callback
Waits(a, b) ==
    \E i \in 1..Len(futs[b].callbacks) : futs[b].callbacks[i] = CbSetResult(a)

\* a waits on x through at most n futures
RECURSIVE WaitsOn(_, _, _)
WaitsOn(a, x, n) ==
    /\ n > 0
    /\ \/ Waits(a, x)
       \/ \E b \in FutIds : Waits(a, b) /\ WaitsOn(b, x, n - 1)

\* f holds the closure call_and_resolve of ret = f.then(t)
HasThen(f, ret, t) ==
    \E i \in 1..Len(futs[f].callbacks) :
        futs[f].callbacks[i] = CbCallAndResolve(ret, t)

\* the settlements the client asked for a: its set_result(future) calls that
\* returned, and the then call that made it
Sources(a) ==
    Cardinality({i \in 1..Len(hist.links) : hist.links[i][1] = a})
    + Cardinality({th \in hist.thens : th.ret = a})

\* a is settled by one flattening or one then, and by nothing else
Sole(a) == a \notin hist.touched /\ Sources(a) = 1

\* the step is a call of set_result(plain value) on x that returned
SettledBy(x) ==
    /\ last'.op = "set_result" /\ last'.f = x /\ last'.exc = None
    /\ futs[x].state = PENDING

-----------------------------------------------------------------------------
(* C7: settle-once.  A future that is done stays done, and its stored      *)
(* result and exception never change again, whatever is called next.       *)

C7_SettleOnce ==
    [][\A f \in FutIds :
          futs[f].state = FINISHED
          => /\ futs'[f].state = FINISHED
             /\ futs'[f].result = futs[f].result
             /\ futs'[f].exception = futs[f].exception]_vars

\* a second settlement of a done future was tried, and refused
C7_Witness ==
    /\ last.op \in {"set_result", "set_exception"}
    /\ last.done
    /\ last.exc = InvalidStateError

-----------------------------------------------------------------------------
(* C8: flattening defers and is transitive.  A future whose only           *)
(* settlement is a flattening onto b (a.set_result(b), or a then whose     *)
(* transform returned b) is pending, and none of its observers has run,    *)
(* while it waits on b; and when set_result(v) of a plain value on x       *)
(* returns, every future that waited on x, through any number of futures,  *)
(* is done with result v.                                                  *)

C8_Deferred ==
    \A a \in FutIds, b \in FutIds :
        Waits(a, b) /\ Sole(a)
        => /\ Pending(a)
           /\ \A i \in 1..Len(log) : log[i][1] # a

C8_Flattening ==
    [][/\ C8_Deferred'
       /\ \A a \in FutIds, x \in FutIds :
            SettledBy(x) /\ WaitsOn(a, x, Len(futs))
            => /\ futs'[a].state = FINISHED
               /\ futs'[a].exception = None
               /\ futs'[a].result = futs'[x].result
               /\ futs'[a].result # None]_vars

\* a.set_result(b); b.set_result(c) in either order; c.set_result(v) returned
C8_Witness ==
    /\ last.op = "set_result" /\ last.exc = None
    /\ \E a \in FutIds, b \in FutIds :
         /\ a # b /\ a # last.f /\ b # last.f
         /\ \E i, j \in 1..Len(hist.links) :
              hist.links[i] = <<a, b>> /\ hist.links[j] = <<b, last.f>>
         /\ Sole(a) /\ Sole(b)
         /\ Settled(a) /\ futs[a].result = futs[last.f].result

-----------------------------------------------------------------------------
(* C9: then composition.  When set_result(v) on f returns, the future of   *)
(* f.then(g) is done with g(v), the future of f.then(g).then(h) is done    *)
(* with h(g(v)), which is also the result of f.then(lambda v: h(g(v)));    *)
(* a transform that raises fails its own future with the raised error.     *)
(* g is x * 2, h is x + 1.                                                 *)

C9_ThenComposition ==
    [][\A f \in FutIds, r \in FutIds :
          SettledBy(f)
          => LET v == futs'[f].result.v
             IN /\ HasThen(f, r, TDouble)
                   => Settled(r)' /\ futs'[r].result = Val(2 * v)
                /\ HasThen(f, r, TSuccDouble)
                   => Settled(r)' /\ futs'[r].result = Val((2 * v) + 1)
                /\ HasThen(f, r, TRaise(2))
                   => Failed(r)' /\ futs'[r].exception = UserError(2)
                /\ \A r2 \in FutIds :
                     HasThen(f, r, TDouble) /\ HasThen(r, r2, TSucc)
                     => Settled(r2)' /\ futs'[r2].result = Val((2 * v) + 1)
                /\ \A r2 \in FutIds :
                     HasThen(f, r, TDouble) /\ HasThen(r, r2, TRaise(2))
                     => Failed(r2)' /\ futs'[r2].exception = UserError(2)]_vars

\* f.then(g).then(h) and f.set_result(v) returned
C9_Witness ==
    /\ last.op = "set_result" /\ last.exc = None
    /\ \E r \in FutIds, r2 \in FutIds :
         /\ [ret |-> r, src |-> last.f, t |-> TDouble] \in hist.thens
         /\ [ret |-> r2, src |-> r, t |-> TSucc] \in hist.thens
         /\ Settled(r2)
         /\ futs[r2].result = Val((2 * futs[last.f].result.v) + 1)

-----------------------------------------------------------------------------
(* C10: then propagates the failure of its source.  When set_exception(e)  *)
(* on f returns, the future of every f.then(transform) the client did not  *)
(* settle itself is failed with e.                                         *)

C10_ThenPropagatesFailure ==
    \A th \in hist.thens :
        /\ last.op = "set_exception" /\ last.exc = None /\ last.f = th.src
        /\ th.ret \notin hist.touched
        => Failed(th.ret) /\ futs[th.ret].exception = futs[th.src].exception


-----------------------------------------------------------------------------
(* C11: result depends only on the state of the future.  A call of result  *)
(* changes nothing; on a pending future it raises InvalidStateError, on a  *)
(* future that holds a result it returns it, on a failed future it raises  *)
(* the stored exception; and when set_result(v) of a plain value on a      *)
(* pending future f returns or raises, f is done and holds v.              *)

C11_GetResult ==
    [][/\ last'.op = "result"
          => /\ futs' = futs /\ log' = log
             /\ Pending(last'.f) => last'.exc = InvalidStateError
             /\ Settled(last'.f)
                => last'.exc = None /\ last'.ret = futs[last'.f].result
             /\ Failed(last'.f) => last'.exc = futs[last'.f].exception
       /\ \A f \in FutIds :
            (last'.op = "set_result" /\ Pending(f)
             /\ f \in hist'.touched \ hist.touched)
            => Settled(f)' /\ futs'[f].result = hist'.arg]_vars

\* result returned the value that set_result had stored
C11_Witness ==
    /\ last.op = "result"
    /\ last.exc = None
    /\ last.ret = hist.arg
    /\ last.ret # None

-----------------------------------------------------------------------------
(* C12: every callback registered on a pending future runs exactly once,   *)
(* inside the call that settles the future, in registration order, whatever *)
(* the callbacks registered before it do.  The observers of hist.observed  *)
(* note their run in log; tag is the place of an observer in the callback  *)
(* list of its future.                                                     *)

Runs(f, tag) == {i \in 1..Len(log) : log[i] = <<f, tag>>}

C12_CallbacksOnce ==
    \A o \in hist.observed :
        /\ Pending(o[1]) => Runs(o[1], o[2]) = {}
        /\ ~Pending(o[1]) => Cardinality(Runs(o[1], o[2])) = 1
        /\ \A o2 \in hist.observed :
              (o2[1] = o[1] /\ o[2] < o2[2])
              => \A i \in Runs(o[1], o[2]), j \in Runs(o2[1], o2[2]) : i < j

-----------------------------------------------------------------------------
(* C13: set_result and set_exception on a future that is done raise        *)
(* InvalidStateError at that call, whatever the value is (a plain value or *)
(* another future), register no callback and change no future.  The call   *)
(* a.set_result(a) is left to C14.                                         *)

C13_SettleDoneRefused ==
    [][(/\ last'.op \in {"set_result", "set_result_future", "set_exception"}
        /\ last'.done
        /\ last'.exc # SelfResolveError)
       => last'.exc = InvalidStateError /\ futs' = futs]_vars

-----------------------------------------------------------------------------
(* C14: a.set_result(a) raises InvalidStateError in every state of a, runs *)
(* no callback and leaves a as it was.                                     *)

\* the last call was a.set_result(a)
SelfSettled(a) ==
    /\ last.op = "set_result_future"
    /\ IF last.exc # None THEN hist.recv = a /\ hist.arg = Fut(a)
       ELSE hist.links # <<>> /\ hist.links[Len(hist.links)] = <<a, a>>

C14_SelfSettlement ==
    [][\A a \in FutIds :
          SelfSettled(a)'
          => last'.exc = InvalidStateError /\ futs' = futs /\ log' = log]_vars

-----------------------------------------------------------------------------
(* C15: no cycle of futures that each wait on the next: the set_result     *)
(* call that would close one is refused.                                   *)

C15_NoFlatteningCycle ==
    \A a \in FutIds : ~WaitsOn(a, a, Len(futs))

\* C28: a.set_result(b) on a pending future a with another future b returns
\* without error whether b is pending or done; and the future of
\* f.then(lambda _: b), once f is settled and b is settled with v, is settled
\* with v.
C28_FlatteningAnyState ==
    /\ (last.op = "set_result_future" /\ last.exc # None)
           => (hist.arg = Fut(hist.recv) \/ futs[hist.recv].state # PENDING)
    /\ \A th \in hist.thens :
           (/\ th.t.k = "fut"
            /\ th.t.a # th.ret
            /\ Sole(th.ret)
            /\ Settled(th.src)
            /\ Settled(th.t.a))
           => /\ Settled(th.ret)
              /\ futs[th.ret].result = futs[th.t.a].result

\* the call on a pending future raises only when it is given the future
\* itself or a future that is done
C28_InnerPending ==
    (last.op = "set_result_future" /\ last.exc # None)
        => \/ hist.arg = Fut(hist.recv)
           \/ futs[hist.recv].state # PENDING
           \/ futs[hist.arg.v].state # PENDING

\* C29: when a.set_result(b) returned with a and b pending and b is then
\* failed with e, a is failed with e; a is not settled with a value.
C29_FlatteningPropagatesFailure ==
    \A i \in DOMAIN hist.links :
        LET a == hist.links[i][1]
            b == hist.links[i][2]
        IN (/\ last.op = "set_exception" /\ last.exc = None /\ last.f = b
            /\ ~last.done
            /\ Sole(a))
           => /\ Failed(a)
              /\ futs[a].exception = futs[b].exception

-----------------------------------------------------------------------------
(* Spec: a client of SyncDataLoader and DataloaderBatchCallbacks.  It      *)
(* enters and leaves with-blocks, loads and clears keys inside and outside *)
(* of them, and chains continuations with then.                            *)

Init ==
    /\ futs = <<>>
    /\ cache = [k \in Keys |-> 0]
    /\ queue = <<>>
    /\ scopes = <<>>
    /\ current = 0
    /\ ctx = NewContext
    /\ batch_load_fn \in {FnValues(0), FnValues(1), FnRaises, FnMalformed}
    /\ calls = <<>>
    /\ log = <<>>
    /\ last = NoCall
    /\ hist = NoHist
    /\ pc = "run"

\* with DataloaderBatchCallbacks(): a new scope is built and entered.  A cycle
\* is a with-block that is entered while the client is inside no other; the
\* client notes the uncached keys it requests in it.
LEnter ==
    /\ Len(scopes) < MaxScopes
    /\ LET s == Len(scopes) + 1
           m == [Mach EXCEPT !.scopes = Append(@, NewScope)]
       IN /\ Commit(Enter(m, s), "enter", 0)
          /\ hist' = [hist EXCEPT
                        !.withs = Append(@, s),
                        !.cyc = IF hist.withs = <<>>
                                THEN [open |-> TRUE, req |-> <<>>,
                                      calls0 |-> Len(calls),
                                      plain |-> \A h \in hist.thens :
                                                    h.t # TLoadRef]
                                ELSE [@ EXCEPT !.plain = FALSE]]

\* the end of the innermost with-block: __exit__
LExit ==
    /\ hist.withs # <<>>
    /\ LET s == hist.withs[Len(hist.withs)]
       IN /\ Commit(Exit(Mach, s), "exit", 0)
          /\ hist' = [hist EXCEPT
                        !.withs = SubSeq(@, 1, Len(@) - 1),
                        !.cyc.open = Len(hist.withs) > 1]

\* loader.load(key)
LLoad ==
    \E key \in Keys :
        /\ Len(futs) < MaxFuts
        /\ LET r == Load(Mach, key)
               miss == cache[key] = 0
           IN /\ Commit(r, "load", 0)
              /\ hist' = [hist EXCEPT
                            !.key = key,
                            !.got[key] = IF Raised(r) THEN @
                                         ELSE @ \cup {r.ret.v},
                            !.cyc.req = IF hist.cyc.open /\ miss
                                        THEN Append(@, key) ELSE @]

\* loader.clear(key)
LClear ==
    \E key \in Keys :
        /\ Commit(Clear(Mach, key), "clear", 0)
        /\ hist' = [hist EXCEPT !.cleared = @ \cup {key},
                                !.cyc.plain = FALSE]

\* the futures the client holds: load or then returned them
Held == UNION {hist.got[k] : k \in Keys} \cup {h.ret : h \in hist.thens}

\* g = f.then(t) on a future that load or then returned; t loads the key the
\* value refers to, or computes
LThen ==
    \E f \in Held, t \in {TLoadRef, TSucc} :
        /\ hist.regs < MaxCbs
        /\ Len(futs) < MaxFuts
        /\ LET r == Then(Mach, f, t)
           IN /\ Commit(r, "then", f)
              /\ hist' = IF Raised(r) THEN hist
                         ELSE [Reg EXCEPT
                                 !.thens = @ \cup
                                     {[ret |-> r.ret.v, src |-> f, t |-> t]},
                                 !.cyc.plain = @ /\ t # TLoadRef]

Next ==
    \/ LEnter
    \/ LExit
    \/ LLoad
    \/ LClear
    \/ LThen

Spec == Init /\ [][Next]_vars


\* the batch-fetch invocations of the cycle that has just ended
CycleCalls == SubSeq(calls, hist.cyc.calls0 + 1, Len(calls))

\* the with-block of a cycle has just been left; in the cycle the client only
\* loaded keys (and chained continuations that load nothing)
CycleEnded == last.op = "exit" /\ ~hist.cyc.open /\ hist.cyc.plain

\* C1: when a scope drains after a sequence of load(k) calls made inside it,
\* the batch function has been invoked exactly once by the drain, with the
\* distinct keys that were not cached when requested, in first-request order
\* (and not at all when every requested key was cached).
C1_OneFetchPerCycle ==
    CycleEnded =>
        CycleCalls = IF hist.cyc.req = <<>> THEN <<>> ELSE <<hist.cyc.req>>

\* C4: while key k is never cleared every load(k) that returns, returns the
\* same future, and a load that finds its key in the cache returns the cached
\* future, adds no queue entry, registers no dispatch and invokes no fetch.
C4_SingleFlight ==
    [][/\ \A k \in Keys \ hist'.cleared : Cardinality(hist'.got[k]) <= 1
       /\ (last'.op = "load" /\ cache[hist'.key] # 0) =>
              /\ last'.ret = Fut(cache[hist'.key])
              /\ queue' = queue
              /\ scopes' = scopes
              /\ calls' = calls
              /\ futs' = futs]_vars

\* a load returned a future that a dispatch had settled before
C4_Witness ==
    /\ last.op = "load"
    /\ last.exc = None
    /\ hist.key \notin hist.cleared
    /\ futs[last.ret.v].state = FINISHED
    /\ calls # <<>>


-----------------------------------------------------------------------------
(* The dispatch of a batch: a step in which the batch function is invoked. *)
(* The keys and futures of the batch are the queue before the step.        *)

Dispatched == Len(calls') > Len(calls)

\* C16: when the batch function raises e, then at the end of the dispatch
\* every key of the batch is out of the cache and every future of the batch
\* is failed with e.
C16_FetchRaises ==
    [][(Dispatched /\ batch_load_fn = FnRaises)
       => \A i \in DOMAIN queue :
              /\ cache'[queue[i].key] = 0
              /\ futs'[queue[i].fut].state = FINISHED
              /\ futs'[queue[i].fut].exception = UserError(0)]_vars

\* C17: when the batch function returns what is no collection of one entry
\* per key, dispatch_queue raises the ValueError of the batch contract, every
\* future of the batch stays pending and the queue of the loader is empty.
C17_MalformedBatch ==
    [][(Dispatched /\ batch_load_fn = FnMalformed)
       => /\ last'.exc = BatchResultError
          /\ queue' = <<>>
          /\ queue # <<>>
          /\ \A i \in DOMAIN queue : futs'[queue[i].fut].state = PENDING
          /\ futs' = futs]_vars

\* the with-block was left with the error of the batch contract, and a
\* future of the batch is held by the client, pending
C17_Witness ==
    /\ batch_load_fn = FnMalformed
    /\ last.op = "exit"
    /\ last.exc = BatchResultError
    /\ calls # <<>>
    /\ queue = <<>>
    /\ \E f \in Held : futs[f].state = PENDING

\* C18: every load of a key that is not in the cache, made while no scope is
\* current, raises the RuntimeError of the missing configuration.
C18_LoadWithoutScope ==
    [][(last'.op = "load" /\ current = 0 /\ cache[hist'.key] = 0)
       => last'.exc = ConfigError]_vars

\* the scope whose with-block the step leaves
Left == hist.withs[Len(hist.withs)]

\* C21: once a with-block has been left, normally or with an exception of
\* the drain, its scope is not the current one and the scope that was
\* current when the block was entered (or none) is current again.
C21_ScopeDeactivated ==
    [][(last'.op = "exit" /\ hist.withs # <<>>)
       => /\ current' # Left
          /\ current' = scopes[Left].token]_vars

\* the same for the blocks whose drain returned
C21_NormalExit ==
    [][(last'.op = "exit" /\ hist.withs # <<>> /\ last'.exc = None)
       => /\ current' # Left
          /\ current' = scopes[Left].token]_vars

WaitingDispatches ==
    {p \in (1..Len(scopes)) \X (1..MaxFuts) :
        /\ \E i \in DOMAIN hist.withs : hist.withs[i] = p[1]
        /\ p[2] \in DOMAIN scopes[p[1]].callbacks
        /\ scopes[p[1]].callbacks[p[2]] = CbDispatch}

\* C24: whenever the pending queue of the loader is not empty, exactly one
\* dispatch callback of the loader waits in a scope that will still be
\* drained.
C24_Registration ==
    queue # <<>> => Cardinality(WaitingDispatches) = 1

\* a dispatch callback is registered only by a load that found the queue
\* empty
C24_RegisteredByFirstLoad ==
    [][(\E s \in DOMAIN scopes :
            Len(scopes'[s].callbacks) > Len(scopes[s].callbacks))
       => last'.op = "load" /\ queue = <<>> /\ last'.exc = None]_vars

\* the same invariant while every queued future was returned by its load and
\* the batch function answers
C24_AfterReturnedLoads ==
    (/\ batch_load_fn.k = "values"
     /\ \A i \in DOMAIN queue : queue[i].fut \in Held)
        => C24_Registration

\* the queue holds every key, each with the future the cache holds for it,
\* and a continuation that loads waits on a queued future that will be
\* settled with a value: the key it loads is a key of the batch
ReentrantBatch ==
    /\ batch_load_fn.k = "values"
    /\ \A k \in Keys : \E i \in DOMAIN queue :
           queue[i].key = k /\ cache[k] = queue[i].fut
    /\ \E i \in DOMAIN queue :
           /\ ~IsExc(FetchedValue(batch_load_fn, queue[i].key))
           /\ \E j \in DOMAIN futs[queue[i].fut].callbacks :
                  LET cb == futs[queue[i].fut].callbacks[j]
                  IN cb.k = "call_and_resolve" /\ cb.t = TLoadRef

\* C25: a continuation that, while a dispatch settles its batch, loads a key
\* of that batch gets the future the cache holds: the load creates no
\* future, adds no queue entry, registers no dispatch, and the batch function
\* is invoked once in the step, with the keys of the batch.
C25_ReentrantLoad ==
    [][(Dispatched /\ ReentrantBatch)
       => /\ Len(futs') = Len(futs)
          /\ queue' = <<>>
          /\ cache' = cache
          /\ calls' = Append(calls, [i \in 1..Len(queue) |-> queue[i].key])
          /\ \A s \in DOMAIN scopes : scopes'[s].callbacks = <<>>]_vars

\* a dispatch of the batch of keys 1 and 2 has run a continuation of the
\* future of key 2 that loaded key 1, settled just before in that dispatch
C25_Witness ==
    /\ last.op = "exit"
    /\ calls = << <<1, 2>> >>
    /\ queue = <<>>
    /\ batch_load_fn = FnValues(0)
    /\ \E h \in hist.thens :
           /\ h.t = TLoadRef
           /\ h.src \in hist.got[2]
           /\ futs[h.ret].state = FINISHED

\* the same with a continuation of the future of key 1 that loaded key 2,
\* not yet settled in that dispatch
C25_WitnessUnsettled ==
    /\ last.op = "exit"
    /\ calls = << <<1, 2>> >>
    /\ \E h \in hist.thens :
           /\ h.t = TLoadRef
           /\ h.src \in hist.got[1]
           /\ futs[h.ret].state = FINISHED
           /\ futs[h.ret].result = Val(2)

\* C30: a load that raises for the missing scope leaves the cache and the
\* pending queue of the loader as they were.
C30_FailedLoadNoEffect ==
    [][(last'.op = "load" /\ last'.exc = ConfigError)
       => cache' = cache /\ queue' = queue]_vars

-----------------------------------------------------------------------------
(* SpecScope: a client of DataloaderBatchCallbacks that, besides loading,  *)
(* registers callbacks of its own on the scopes it built and drains the    *)
(* scopes itself.                                                          *)

InitScope ==
    /\ Init
    /\ batch_load_fn \in {FnValues(0), FnRaises}

\* scope.add_callback(cb): cb notes its run, and may append a further
\* callback to the scope when it runs
SAdd ==
    \E s \in 1..Len(scopes), adder \in BOOLEAN :
        /\ hist.adds < MaxAdds
        /\ LET tag == hist.adds + 1
               cb == IF adder THEN CbAdder(s, tag) ELSE CbRecord(s, tag)
           IN /\ Commit(Return(AddCallback(Mach, s, cb), None),
                        "add_callback", 0)
              /\ hist' = [hist EXCEPT !.adds = tag, !.scope = s]

\* scope.run_all_callbacks(), on a scope that holds callbacks (the drain of
\* an empty scope is the one at the end of an empty with-block)
SRun ==
    \E s \in 1..Len(scopes) :
        /\ scopes[s].callbacks # <<>>
        /\ Commit(RunAllCallbacks(Mach, s), "run_all_callbacks", 0)
        /\ hist' = [hist EXCEPT !.scope = s]

NextScope ==
    \/ LEnter
    \/ LExit
    \/ LLoad
    \/ LThen
    \/ SAdd
    \/ SRun

SpecScope == InitScope /\ [][NextScope]_vars

\* the step drains a scope: at the end of a with-block or by a call
DrainStep == last'.op \in {"exit", "run_all_callbacks"}
Drained == IF last'.op = "exit" THEN Left ELSE hist'.scope

\* the callbacks of q that note their run, and those of them that append
Noting(q) == SelectSeq(q, LAMBDA c : c.k \in {"record", "add_callback"})
Adding(q) == SelectSeq(q, LAMBDA c : c.k = "add_callback")

\* C22: a drain that returns has run the callbacks that were queued, oldest
\* first, then the callbacks appended during the drain in the order they
\* were appended, each once, and leaves the queue of the scope empty; a
\* dispatch registered during the drain has run before the drain returns;
\* and no callback is ever run twice.
C22_DrainFifo ==
    /\ [][(DrainStep /\ last'.exc = None)
          => LET s == Drained
                 q == scopes[s].callbacks
                 own == Noting(q)
                 adders == Adding(q)
             IN /\ scopes'[s].callbacks = <<>>
                /\ log' = log \o [i \in 1..Len(own) |-> <<s, own[i].t.a>>]
                              \o [i \in 1..Len(adders) |->
                                     <<s, adders[i].t.a + MaxAdds>>]
                /\ (current = s /\ \E i \in DOMAIN q : q[i] = CbDispatch)
                       => queue' = <<>>]_vars
    /\ [](\A i, j \in DOMAIN log : log[i] = log[j] => i = j)

\* a drain returned in which a callback appended by an earlier callback ran
\* after a callback that was queued before it, and in which a dispatch that
\* was registered during the drain fetched the second batch
C22_Witness ==
    /\ last.op \in {"exit", "run_all_callbacks"}
    /\ last.exc = None
    /\ Len(calls) = 2
    /\ \E i, j, k \in DOMAIN log :
           /\ i < j /\ j < k
           /\ log[j][2] <= MaxAdds
           /\ log[k][2] = log[i][2] + MaxAdds

-----------------------------------------------------------------------------
(* SpecEval: a program that evaluates one selection of root fields with    *)
(* DeferredExecutionContext.execute_operation.  It may do so inside a      *)
(* with-block of its own; resolvers may return futures that the program    *)
(* built, and settles before or after the evaluation.                      *)

InitEval ==
    /\ futs = <<>>
    /\ cache = [k \in Keys |-> 0]
    /\ queue = <<>>
    /\ scopes = <<>>
    /\ current = 0
    /\ ctx = NewContext
    /\ batch_load_fn \in {FnValues(e) : e \in 0..MaxKey}
    /\ calls = <<>>
    /\ log = <<>>
    /\ last = NoCall
    /\ hist = NoHist
    /\ pc = "run"

\* the key lists of a resolver that returns a list of loads
KeyLists == {[i \in 1..n |-> i] : n \in 1..MaxKey}

Nullable == Type(FALSE, FALSE, FALSE)

\* the sub-selections of the object types: one field, whose resolver takes no
\* notice of its source
Subs ==
    {<<[res |-> RValue(1), ty |-> Nullable]>>}
    \cup {<<[res |-> RLoad(k), ty |-> Nullable]>> : k \in Keys}

\* the fields a selection is made of
Fields ==
    {[res |-> RValue(1), ty |-> Nullable], [res |-> RMissing, ty |-> Nullable]}
    \cup {[res |-> res, ty |-> Type(FALSE, nonnull, FALSE)] :
            res \in {RLoad(k) : k \in Keys} \cup {RFuture(f) : f \in FutIds},
            nonnull \in BOOLEAN}
    \cup {[res |-> res, ty |-> Nullable] :
            res \in {RHinted(k) : k \in Keys} \cup {RChain(k) : k \in Keys}}
    \cup {[res |-> RLoads(ks), ty |-> Type(TRUE, FALSE, item_nonnull)] :
            ks \in KeyLists, item_nonnull \in BOOLEAN}
    \cup {[res |-> RLoads(ks), ty |-> ObjectType(TRUE, sub)] :
            ks \in KeyLists, sub \in Subs}
    \cup {[res |-> res, ty |-> ObjectType(FALSE, sub)] :
            res \in {RLoad(k) : k \in Keys} \cup {RHinted(k) : k \in Keys},
            sub \in Subs}

Queries == UNION {[1..n -> Fields] : n \in 1..MaxFields}

\* f = SyncFuture(): the program builds its futures first
ENew ==
    /\ last.op \in {"none", "new"}
    /\ Len(futs) < MaxRaw
    /\ Commit([Mach EXCEPT !.futs = Append(@, NewFut)], "new", Len(futs) + 1)
    /\ hist' = hist

\* f.set_result(v) or f.set_exception(e) on a pending future of the program.
\* The program settles the futures it built, never those of the loader.
\* Before the evaluation nothing depends on the order of these calls, which
\* are made ahead of everything else and by ascending future; after it the
\* program notes the order.
ESettle ==
    \E f \in 1..MaxRaw, fails \in BOOLEAN :
        /\ f \in FutIds
        /\ futs[f].state = PENDING
        /\ hist.query # <<>> =>
               \E i \in DOMAIN hist.query : hist.query[i].res = RFuture(f)
        /\ hist.query = <<>> =>
               /\ last.op \in {"none", "new", "settle"}
               /\ last.op = "settle" => last.f < f
        /\ Commit(IF fails THEN SetException(Mach, f, UserError(0))
                  ELSE SetResult(Mach, f, Val(f)), "settle", f)
        /\ hist' = IF hist.query = <<>> THEN hist
                   ELSE [hist EXCEPT !.order = Append(@, f)]

\* with DataloaderBatchCallbacks(): around the evaluation
EEnter ==
    /\ hist.query = <<>>
    /\ hist.withs = <<>>
    /\ LEnter

\* the evaluation; a resolver returns each future that the program has built
EExecute ==
    /\ hist.query = <<>>
    /\ \E fields \in Queries :
        /\ \A f \in FutIds : \E i \in DOMAIN fields : fields[i].res = RFuture(f)
        /\ LET r == ExecuteOperation(Mach, fields)
           IN /\ Commit(r, "execute", 0)
              /\ hist' = [hist EXCEPT !.query = fields, !.result = r.ret]

NextEval ==
    \/ ENew
    \/ ESettle
    \/ EEnter
    \/ LExit
    \/ EExecute

SpecEval == InitEval /\ [][NextEval]_vars


\* the selection that was evaluated, and the error key of the batch function
Query == hist.query
ErrorKey == batch_load_fn.a

LoadField(k) == [res |-> RLoad(k), ty |-> Nullable]
ChainField(k) == [res |-> RChain(k), ty |-> Nullable]

IsConfigError(e) == e.t = ConfigError.t /\ e.v = ConfigError.v

\* C2: execute_operation keeps a scope active: no load of a resolver fails for
\* lack of one, and two sibling fields that load distinct keys both end with
\* their data after one batch-fetch invocation with both keys in field order.
C2_ScopeForEvaluation ==
    last.op = "execute" =>
        /\ ~IsConfigError(last.exc)
        /\ \A n \in DOMAIN ctx.errors : ~IsConfigError(ctx.errors[n])
        /\ \A k1, k2 \in Keys :
               (/\ k1 # k2
                /\ Query = <<LoadField(k1), LoadField(k2)>>
                /\ ErrorKey = 0) =>
                   /\ last.exc = None
                   /\ last.ret.t = "dict"
                   /\ ctx.objs[last.ret.v].results =
                          <<[name |-> 1, v |-> Val(k1)], [name |-> 2, v |-> Val(k2)]>>
                   /\ calls = <<<<k1, k2>>>>

\* C3: the evaluation of a field that loads x and then loads the ref of its
\* result invokes the batch function exactly twice, with [x] and then with
\* [ref], before it returns.
C3_ChainedBatches ==
    last.op = "execute" =>
        \A x \in Keys :
            (Query = <<ChainField(x)>> /\ ErrorKey = 0) =>
                /\ last.exc = None
                /\ calls = <<<<x>>, <<Ref(x)>>>>


\* the positions of the result with a leaf value: <<i>> is root field i,
\* <<i, j>> item j of the list of root field i; the key a position depends on
Leaves == {n \in DOMAIN Query : Query[n].ty.sub = <<>>}

Positions ==
    {<<i>> : i \in {n \in Leaves : Query[n].res.k \in {"load", "hinted"}}}
    \cup {p \in {n \in Leaves : Query[n].res.k = "loads"} \X (1..MaxKey) :
             p[2] \in DOMAIN Query[p[1]].res.a}

KeyOf(pos) ==
    IF Len(pos) = 1 THEN Query[pos[1]].res.a ELSE Query[pos[1]].res.a[pos[2]]

\* the lists of the evaluation are numbered in field order
ListOf(i) == Cardinality({n \in 1..i : Query[n].res.k = "loads"})

\* what the position holds: the value of the key of the root dict, the entry of
\* the list
Holds(pos, v) ==
    IF Len(pos) = 1
    THEN /\ ctx.objs # <<>>
         /\ \E n \in DOMAIN ctx.objs[1].results :
                ctx.objs[1].results[n] = [name |-> pos[1], v |-> v]
    ELSE /\ ListOf(pos[1]) \in DOMAIN ctx.lists
         /\ ctx.lists[ListOf(pos[1])].results[pos[2]] = v

\* the path of a position in the located errors (list indices from 0)
PathOf(pos) == IF Len(pos) = 1 THEN pos ELSE <<pos[1], pos[2] - 1>>

ErrorsAt(pos) == {n \in DOMAIN ctx.errors : ctx.errors[n].p = PathOf(pos)}

\* the invocations of the batch function that had the key among their keys
BatchesOf(k) ==
    {n \in DOMAIN calls : \E j \in DOMAIN calls[n] : calls[n][j] = k}

\* the key was fetched in a batch together with the error key
Fetched(k) == BatchesOf(k) \cap BatchesOf(ErrorKey) # {}

\* a dispatch of a batch with the error key has ended (dispatch_queue runs
\* inside one step of the program)
ErrorBatchDone == ErrorKey # 0 /\ BatchesOf(ErrorKey) # {}

\* C5: after a batch in which the batch function returned an error object for
\* one key, every position that depends on that key holds null and has one
\* located error, every position that depends on another key of the batch
\* holds its data and has no error, and the batch was fetched once.
C5_ErrorIsolation ==
    (Query # <<>> /\ ErrorBatchDone) =>
        /\ Cardinality({c \in (DOMAIN calls) \X (1..MaxFuts) :
                           /\ c[2] \in DOMAIN calls[c[1]]
                           /\ calls[c[1]][c[2]] = ErrorKey}) = 1
        /\ \A pos \in Positions :
               IF KeyOf(pos) = ErrorKey
               THEN Holds(pos, None) /\ Cardinality(ErrorsAt(pos)) = 1
               ELSE Fetched(KeyOf(pos)) =>
                        Holds(pos, Val(KeyOf(pos))) /\ ErrorsAt(pos) = {}

\* the errors of the contracts: InvalidStateError, the RuntimeError of the
\* missing scope, the ValueError of the batch contract
IsContractError(e) ==
    \/ e.t = InvalidStateError.t
    \/ IsConfigError(e)
    \/ e.t = BatchResultError.t /\ e.v = BatchResultError.v

\* C19: an error of a contract that is raised while a field is resolved or
\* completed is never recorded as a located error of the field: it ends the
\* evaluation, so the list of field errors never holds one.
C19_ContractErrorsFatal ==
    \A n \in DOMAIN ctx.errors : ~IsContractError(ctx.errors[n])

\* a field or an item of the evaluation waits on future f: f is pending and
\* holds a closure of the evaluator
EvaluatorClosures ==
    {"field_process_result", "field_process_completed",
     "fields_process_result", "process_item", "item_process_completed"}

Awaited(f) ==
    /\ futs[f].state = PENDING
    /\ \E i \in DOMAIN futs[f].callbacks :
           futs[f].callbacks[i].k \in EvaluatorClosures

\* a result container holds the placeholder of a pending field
HasPlaceholder ==
    \E o \in DOMAIN ctx.objs : \E n \in DOMAIN ctx.objs[o].results :
        ctx.objs[o].results[n].v = PENDING_FUTURE

\* C20: execute_operation returns a finished result container or raises the
\* RuntimeError of the incomplete execution: it never returns while a field
\* or an item still waits on a pending future, or while a container holds a
\* placeholder; and when it raises that error, some future is awaited.
C20_FinishedOrIncomplete ==
    last.op = "execute" =>
        /\ last.exc = None =>
               /\ last.ret.t = "dict"
               /\ \A f \in FutIds : ~Awaited(f)
               /\ ~HasPlaceholder
        /\ last.exc = IncompleteError => \E f \in FutIds : Awaited(f)

\* the response names of the selection of an object level in declared order,
\* without the fields the schema does not define
Declared(o) ==
    SelectSeq([i \in DOMAIN ctx.objs[o].fields |-> i],
              LAMBDA i : ctx.objs[o].fields[i].res # RMissing)

\* the names of a result container in its iteration order
KeysOf(o) == [n \in DOMAIN ctx.objs[o].results |-> ctx.objs[o].results[n].name]

\* the container of an object level is final: execute_fields returned it (to
\* the program, into a container above it, or into a future), or the future
\* it returned is settled with it
Final(o) ==
    /\ Query # <<>>
    /\ ctx.objs[o].unresolved = 0
    /\ \/ hist.result = DictVal(o)
       \/ \E f \in FutIds : futs[f].result = DictVal(o)
       \/ \E l \in DOMAIN ctx.lists : \E i \in DOMAIN ctx.lists[l].results :
              ctx.lists[l].results[i] = DictVal(o)
       \/ \E o2 \in DOMAIN ctx.objs : \E i \in DOMAIN ctx.objs[o2].results :
              ctx.objs[o2].results[i].v = DictVal(o)

\* C6: at every moment the keys of a result container are in declared field
\* order, and the keys of a final container are exactly the declared fields
\* without the omitted ones, whatever the order in which the futures of the
\* fields were settled.
C6_FieldOrder ==
    \A o \in DOMAIN ctx.objs :
        /\ \A i, j \in DOMAIN KeysOf(o) : i < j => KeysOf(o)[i] < KeysOf(o)[j]
        /\ Final(o) => KeysOf(o) = Declared(o)

\* two fields whose futures were settled after the evaluation, the second
\* field first, and the container is final
C6_Witness ==
    /\ Len(Query) = 2
    /\ Query[1].res = RFuture(1)
    /\ Query[2].res = RFuture(2)
    /\ hist.order = <<2, 1>>
    /\ ctx.objs # <<>>
    /\ Final(1)
    /\ KeysOf(1) = <<1, 2>>

\* an immediate field after a deferred one keeps its place, and an omitted
\* field leaves no key
C6_WitnessInterleaved ==
    /\ Len(Query) = 2
    /\ Query[1].res = RFuture(1)
    /\ Query[2].res = RValue(1)
    /\ hist.order = <<1>>
    /\ ctx.objs # <<>>
    /\ Final(1)


\* an item of list l still waits for its value: a pending future holds a
\* closure of complete_list_value for that list
ItemAwaited(l) ==
    \E f \in FutIds :
        /\ futs[f].state = PENDING
        /\ \E j \in DOMAIN futs[f].callbacks :
               /\ futs[f].callbacks[j].k \in
                      {"process_item", "item_process_completed"}
               /\ futs[f].callbacks[j].a = l

\* the future of list l is done
ListSettled(l) ==
    /\ ctx.lists[l].future # 0
    /\ futs[ctx.lists[l].future].state = FINISHED

\* C26: when the future of a list is done, no item of the list still waits
\* for its value (also not an item whose completion returned a pending
\* future), and the future holds the list.
C26_ListSettlesComplete ==
    \A l \in DOMAIN ctx.lists :
        ListSettled(l) =>
            /\ ~ItemAwaited(l)
            /\ ctx.lists[l].unresolved = 0
            /\ futs[ctx.lists[l].future].result = ListVal(l)

\* the same for the selections without a list of objects
C26_ListsOfLeaves ==
    (\A n \in DOMAIN Query : Query[n].ty.list => Query[n].ty.sub = <<>>)
        => C26_ListSettlesComplete

\* the futures of fields that object level o still waits for
PendingFields(o) ==
    {f \in FutIds :
        /\ futs[f].state = PENDING
        /\ \E j \in DOMAIN futs[f].callbacks :
               /\ futs[f].callbacks[j].k = "fields_process_result"
               /\ futs[f].callbacks[j].a = o}

\* the names under which the container of level o holds the placeholder
Placeholders(o) ==
    {n \in DOMAIN ctx.objs[o].results :
        ctx.objs[o].results[n].v = PENDING_FUTURE}

\* execute_fields returned the container of level o itself
ReturnedDirectly(o) ==
    /\ ctx.objs[o].future = 0
    /\ \/ hist.result = DictVal(o)
       \/ \E f \in FutIds : futs[f].result = DictVal(o)
       \/ \E l \in DOMAIN ctx.lists : \E i \in DOMAIN ctx.lists[l].results :
              ctx.lists[l].results[i] = DictVal(o)
       \/ \E o2 \in DOMAIN ctx.objs : \E i \in DOMAIN ctx.objs[o2].results :
              ctx.objs[o2].results[i].v = DictVal(o)

\* C27: an object level that waited for a field returned a future; that
\* future is done exactly when no field of the level is pending any more,
\* and then holds the container, which has no placeholder; a level none of
\* whose resolvers returns a future returns the container itself; a
\* container that was returned itself has no placeholder; and a field the
\* schema omits has no key in the container.
C27_ObjectPendingCounter ==
    \A o \in DOMAIN ctx.objs :
        LET ob == ctx.objs[o]
        IN /\ ob.future # 0 =>
                  /\ futs[ob.future].state = FINISHED <=> PendingFields(o) = {}
                  /\ futs[ob.future].state = FINISHED =>
                         /\ futs[ob.future].result = DictVal(o)
                         /\ futs[ob.future].exception = None
                         /\ Placeholders(o) = {}
                  /\ futs[ob.future].state = PENDING =>
                         Cardinality(Placeholders(o)) = ob.unresolved
           /\ (\A i \in DOMAIN ob.fields :
                   ob.fields[i].res.k \in {"value", "missing"}) => ob.future = 0
           /\ ReturnedDirectly(o) =>
                  Placeholders(o) = {} /\ PendingFields(o) = {}
           /\ \A n \in DOMAIN ob.results :
                  ob.fields[ob.results[n].name].res # RMissing

\* both fields of the selection were pending when the level returned, their
\* futures were settled later, the second first, and the future of the level
\* is done with the container
C27_Witness ==
    /\ Len(Query) = 2
    /\ Query[1].res = RFuture(1)
    /\ Query[2].res = RFuture(2)
    /\ hist.order = <<2, 1>>
    /\ ctx.objs # <<>>
    /\ ctx.objs[1].future # 0
    /\ futs[ctx.objs[1].future].state = FINISHED
    /\ futs[ctx.objs[1].future].result = DictVal(1)
    /\ last.op = "settle"

\* every future a resolver of the selection returns comes from load
LoadOnly ==
    /\ Query # <<>>
    /\ \A n \in DOMAIN Query : Query[n].res.k # "future"

\* the number of times key k was handed to the batch function
FetchesOf(k) ==
    Cardinality({p \in (DOMAIN calls) \X (1..MaxFuts) :
                    p[2] \in DOMAIN calls[p[1]] /\ calls[p[1]][p[2]] = k})

\* C31: when execute_operation returns, with a batch function that answers
\* every batch and resolvers whose futures come from load, its drain has
\* emptied the list of deferred callbacks, every key was fetched at most
\* once, and every future that load or the evaluator created is done.
C31_EvaluationCompletes ==
    (last.op = "execute" /\ last.exc = None /\ LoadOnly)
        => /\ ctx.deferred = <<>>
           /\ \A k \in Keys : FetchesOf(k) <= 1
           /\ \A f \in FutIds : futs[f].state = FINISHED

\* the parts of C31 about the drain and the fetches alone
C31_DrainAndFetches ==
    (last.op = "execute" /\ LoadOnly)
        => /\ last.exc = None => ctx.deferred = <<>>
           /\ \A k \in Keys : FetchesOf(k) <= 1

\* the whole of C31 for an evaluation inside a with-block of the caller, of
\* a selection without lists of objects
C31_InsideScope ==
    (/\ hist.withs # <<>>
     /\ \A n \in DOMAIN Query : Query[n].ty.list => Query[n].ty.sub = <<>>)
        => C31_EvaluationCompletes

====
